---- MODULE Spec2Model ----
(***************************************************************************)
(* A model of the gitleaks history-scanning engine:                        *)
(*   - RepoScanner.Scan / receiveLeaks / GetLeaks   (package scan)         *)
(*   - CommitScanner.Scan                            (package scan)         *)
(*   - auditRepo / auditBranch / checkDiff           (package main)         *)
(* One behaviour runs one of the three entry points (variable prog).       *)
(* Commits are named by their position in traversal order (hash h is the   *)
(* h-th commit the iterator yields); what the history provider answers for *)
(* a commit (its parents, its patch, its tree, whether its hash is in the  *)
(* allowlist) is an input drawn when the walker reaches the commit.        *)
(***************************************************************************)
EXTENDS Integers, Sequences, FiniteSets, Bags, TLC

\* ------------------------------------------------------------------ bounds
MaxCommits == 2     \* commits the iterator yields at most
MaxThreads == 2     \* largest configured concurrency limit
MaxDepth   == 2     \* largest configured depth limit
MaxParents == 2     \* parents of a commit at most
MaxRefs    == 2     \* references of the repository at most
MaxDiffLen == 4     \* line texts and line breaks of a diff string at most

Hashes == 1..MaxCommits

\* ------------------------------------------------------------- data model
\* fdiff.Operation of a chunk
Add    == "Add"
Delete == "Delete"
Equal  == "Equal"

\* a nil diff.File (f.Files() returns nil on that side)
NoFile == "nil"

\* the file patches held where there is no patch
NoPatch == << >>

Chunk(type, content) == [Type |-> type, Content |-> content]

FilePatch(binary, from, to, chunks) ==
    [IsBinary |-> binary, From |-> from, To |-> to, Chunks |-> chunks]

\* Lines of chunk content.  "k1", "k1a" and "k1b" hold a match of rule R1,
\* "k12" a match of R1 and of R2, "k1w" a match of R1 on a line an allowlist
\* pattern matches too, "plain" holds no match.
Rules == <<"R1", "R2">>

FindString(rule, line) ==
    IF rule = "R1" /\ line \in {"k1", "k1a", "k1b", "k12", "k1w"} THEN "secret1"
    ELSE IF rule = "R2" /\ line = "k12" THEN "secret2"
    ELSE ""

AllowlistFindString(line) == IF line = "k1w" THEN "fake" ELSE ""

\* The patches the history provider may answer with.  A binary file patch has
\* no chunks (fdiff.FilePatch: "If the file is a binary one, Chunks will be
\* empty").
PatchA == << FilePatch(FALSE, "a", "b", << Chunk(Add, <<"k1">>) >>) >>

PatchB == << FilePatch(TRUE, "img", "img", << >>),
             FilePatch(FALSE, NoFile, NoFile,
                       << Chunk(Equal, <<"k1">>), Chunk(Delete, <<"k1", "k1b">>),
                          Chunk(Add, <<"k1w", "k1a">>) >>) >>

Patches == {PatchA, PatchB}

\* The trees a parentless commit may have: files with their lines.
TreeFile(path, lines) == [Path |-> path, Lines |-> lines]

TreeA == << TreeFile("a", <<"k1">>) >>
TreeB == << TreeFile("a", <<"plain">>), TreeFile("b", <<"k1", "k1w">>) >>

Trees == {TreeA, TreeB}

\* scan.Leak
Leak(line, commit, offender, rule, file) ==
    [Line |-> line, Commit |-> commit, Offender |-> offender, Type |-> rule,
     File |-> file, Branch |-> "", LineNumber |-> 0]

\* --------------------------------------------------------- rule matching
\* checkRules: every line of the content, every rule on it; a finding for a
\* non-empty match on a line no allowlist content pattern matches.
RECURSIVE lineLeaks(_, _, _, _)
lineLeaks(i, line, commit, file) ==
    IF i > Len(Rules) THEN << >>
    ELSE LET match == FindString(Rules[i], line)
             found == IF match # "" /\ AllowlistFindString(line) = ""
                      THEN << Leak(line, commit, match, Rules[i], file) >>
                      ELSE << >>
         IN  found \o lineLeaks(i + 1, line, commit, file)

RECURSIVE checkRules(_, _, _)
checkRules(filepath, commit, content) ==
    IF content = << >> THEN << >>
    ELSE lineLeaks(1, Head(content), commit, filepath)
         \o checkRules(filepath, commit, Tail(content))

\* FilesAtCommitScanner.Scan / GetLeaks: every line of every file of the tree
\* is checked as if it were an addition.
RECURSIVE filesAtCommit(_, _)
filesAtCommit(tree, commit) ==
    IF tree = << >> THEN << >>
    ELSE checkRules(Head(tree).Path, commit, Head(tree).Lines)
         \o filesAtCommit(Tail(tree), commit)

\* ------------------------------------------------------- option helpers
howManyThreads(threads) == threads

depthReached(i, o) == o.Depth # 0 /\ o.Depth = i

isCommitAllowListed(hash, commits) == hash \in commits

\* ------------------------------------------------- RepoScanner.Scan worker
\* line 133: the chunk filter of the worker
repoChunkScanned(chunk, o) ==
    chunk.Type = Add \/ (o.Deletion /\ chunk.Type = Delete)

\* line 134-142: the file path the worker attaches to a chunk's leaks
repoFilePath(f) ==
    IF f.From # NoFile THEN f.From
    ELSE IF f.To # NoFile THEN f.To
    ELSE "???"

\* line 132-143: the chunk loop of file patch f from chunk ci on, up to the
\* first chunk whose leaks are to be sent: the chunk reached, its leaks, and
\* the <<type, binary>> of the chunks passed to checkRules on the way
RECURSIVE repoChunks(_, _, _, _)
repoChunks(f, ci, commit, o) ==
    IF ci > Len(f.Chunks) THEN [ci |-> ci, queue |-> << >>, seen |-> {}]
    ELSE IF repoChunkScanned(f.Chunks[ci], o)
    THEN LET found == checkRules(repoFilePath(f), commit, f.Chunks[ci].Content)
             here  == {<<f.Chunks[ci].Type, f.IsBinary>>}
         IN  IF found # << >>
             THEN [ci |-> ci, queue |-> found, seen |-> here]
             ELSE LET rest == repoChunks(f, ci + 1, commit, o)
                  IN  [rest EXCEPT !.seen = @ \cup here]
    ELSE repoChunks(f, ci + 1, commit, o)

\* the leaks of every scanned chunk of a patch, in file-chunk-line order
RECURSIVE chunksLeaks(_, _, _, _)
chunksLeaks(chunks, f, commit, o) ==
    IF chunks = << >> THEN << >>
    ELSE (IF repoChunkScanned(Head(chunks), o)
          THEN checkRules(repoFilePath(f), commit, Head(chunks).Content)
          ELSE << >>)
         \o chunksLeaks(Tail(chunks), f, commit, o)

RECURSIVE patchLeaks(_, _, _)
patchLeaks(patch, commit, o) ==
    IF patch = << >> THEN << >>
    ELSE (IF Head(patch).IsBinary THEN << >>
          ELSE chunksLeaks(Head(patch).Chunks, Head(patch), commit, o))
         \o patchLeaks(Tail(patch), commit, o)

SeqToBag(s) ==
    LET elems == {s[i] : i \in 1..Len(s)}
    IN  [e \in elems |-> Cardinality({i \in 1..Len(s) : s[i] = e})]

\* ------------------------------------------------------------ checkDiff
\* main.Leak
AuditLeak(line, commit, offender, leakType, file, branch) ==
    [Line |-> line, Commit |-> commit, Offender |-> offender, Type |-> leakType,
     File |-> file, Branch |-> branch]

\* regexes is a map: a range over it visits the rules in an order of its own
RuleOrders == {<<"R1", "R2">>, <<"R2", "R1">>}

\* the rules on one line without the test of the allowlist patterns
RECURSIVE diffLineNoAllowlist(_, _, _, _, _, _)
diffLineNoAllowlist(i, line, order, commit, filePath, branch) ==
    IF i > Len(order) THEN << >>
    ELSE LET match == FindString(order[i], line)
             found == IF match = "" THEN << >>
                      ELSE << AuditLeak(line, commit, match, order[i], filePath,
                                        branch) >>
         IN  found \o diffLineNoAllowlist(i + 1, line, order, commit, filePath, branch)

\* line 539-569: the rules on one line, in the order the map yields them
RECURSIVE diffLineLeaks(_, _, _, _, _, _)
diffLineLeaks(i, line, order, commit, filePath, branch) ==
    IF i > Len(order) THEN << >>
    ELSE LET match == FindString(order[i], line)
             ignoreMatch == AllowlistFindString(line) # ""
             found == IF match = "" THEN << >>
                      ELSE IF ignoreMatch THEN << >>
                      ELSE << AuditLeak(line, commit, match, order[i], filePath,
                                        branch) >>
         IN  found \o diffLineLeaks(i + 1, line, order, commit, filePath, branch)

\* line 531-572: checkDiff, on the lines strings.Split gives
RECURSIVE checkDiff(_, _, _, _, _)
checkDiff(diff, commit, filePath, branch, order) ==
    IF diff = << >> THEN << >>
    ELSE diffLineLeaks(1, Head(diff), order, commit, filePath, branch)
         \o checkDiff(Tail(diff), commit, filePath, branch, order)

\* ----------------------------------------------------- auditBranch worker
\* The patch treeChanges.Patch() answers with in an audit: a file a
\* whiteListFiles pattern matches, and an added file with a context chunk, a
\* chunk of removed lines and a chunk of added lines.
AuditPatchA == << FilePatch(FALSE, "wl", "wl", << Chunk(Add, <<"k1">>) >>),
                 FilePatch(FALSE, NoFile, "b",
                           << Chunk(Equal, <<"k1">>), Chunk(Delete, <<"k12">>),
                              Chunk(Add, <<"k1w", "plain">>) >>) >>

AuditPatches == {AuditPatchA}

\* line 437-445: the file path of a file patch
auditFilePath(f) ==
    IF f.From # NoFile THEN f.From
    ELSE IF f.To # NoFile THEN f.To
    ELSE ""

\* line 446-450: a whiteListFiles pattern matches the path
auditSkipFile(filePath) == filePath = "wl"

\* line 456: the chunks of a file patch that are passed to checkDiff
auditChunkScanned(chunk) == TRUE

\* line 455-458: the chunks of one file patch
RECURSIVE auditChunks(_, _, _, _, _)
auditChunks(chunks, f, commit, branch, order) ==
    IF chunks = << >> THEN << >>
    ELSE (IF auditChunkScanned(Head(chunks))
          THEN checkDiff(Head(chunks).Content, commit, auditFilePath(f), branch, order)
          ELSE << >>)
         \o auditChunks(Tail(chunks), f, commit, branch, order)

\* line 433-459: leaksL of a patch
RECURSIVE auditPatchLeaks(_, _, _, _)
auditPatchLeaks(patch, commit, branch, order) ==
    IF patch = << >> THEN << >>
    ELSE (IF auditSkipFile(auditFilePath(Head(patch))) THEN << >>
          ELSE auditChunks(Head(patch).Chunks, Head(patch), commit, branch, order))
         \o auditPatchLeaks(Tail(patch), commit, branch, order)

\* the <<type, binary>> of the chunks of a patch that are passed to checkDiff
auditSeen(patch) ==
    {<<patch[i].Chunks[j].Type, patch[i].IsBinary>> :
        <<i, j>> \in {x \in (1..Len(patch)) \X (1..3) :
                        /\ x[2] <= Len(patch[x[1]].Chunks)
                        /\ ~auditSkipFile(auditFilePath(patch[x[1]]))
                        /\ auditChunkScanned(patch[x[1]].Chunks[x[2]])}}

\* --------------------------------------------------------------- state
VARIABLES
    prog,        \* which entry point runs: "repo", "commit" or "audit"
    opts,        \* the options of the run
    timedOut,    \* ctx.Err() == context.DeadlineExceeded
    crashed,     \* an unrecovered panic has ended the process
    scanned,     \* <<chunk type, file patch is binary>> of the chunks passed to rule matching
    patched,     \* <<commit, index of the parent>> of the calls of parent.Patch
    \* RepoScanner
    cc,          \* Scan's commit counter
    semaphore,   \* permits in Scan's semaphore channel
    wg,          \* Scan's worker WaitGroup counter
    leaks,       \* rs.leaks
    leakWG,      \* rs.leakWG counter
    iter,        \* number of commits cIter has yielded
    wpc,         \* where the walker (Scan) is
    wc,          \* the commit the walker is handling
    workers,     \* the worker goroutine of each commit
    rcv,         \* the receiveLeaks goroutine
    cpc,         \* where the caller of Scan and GetLeaks is
    result,      \* what GetLeaks returned
    stdout,      \* the records receiveLeaks printed
    \* what has happened so far in RepoScanner.Scan
    examined,    \* number of commits that passed the walker's stop check
    allowed,     \* commits whose hash is in the allowlist
    msgAllowed,  \* commits whose message contains an allowlisted substring
    diffed,      \* commits parent.Patch was called for
    rooted,      \* commits handed to the files-at-commit scanner
    dispatched,  \* commits a worker was started for
    produced,    \* leakWG.Add calls
    absorbed,    \* leakWG.Done calls
    expected,    \* bag of the leaks of the root scan and of the dispatched commits,
                 \* kept while the deadline has not passed
    rootFound,   \* the leaks facScanner.GetLeaks() returned to Scan
    sent,        \* per commit, the leaks its worker sent on leakChan, in order
    scanErr,     \* the error RepoScanner.Scan returned: "nil" or "err", "none"
                 \* while it has not returned
    opened,      \* logOptions and repo.Log succeeded
    walkErr,     \* the callback of cIter.ForEach returned an error other than
                 \* storer.ErrStop
    \* auditRepo
    apc,         \* where auditRepo is
    aref,        \* references refs.ForEach has yielded
    acommit,     \* commits cIter has yielded in the current auditBranch
    aworkers,    \* the running worker goroutines of auditBranch
    commitWg,    \* commitWg counter
    commitChan,  \* the messages buffered in commitChan
    aleaks,      \* leaks of auditRepo
    aresult,     \* what auditRepo returned
    audited,     \* references auditBranch was called on
    refAllowed,  \* references whose name ends with an allowlisted suffix
    \* CommitScanner
    spc,         \* where CommitScanner.Scan is
    snparents,   \* len(cs.commit.ParentHashes)
    sparent,     \* the parent the parent loop is at
    spatch,      \* the patch against that parent
    sfile,       \* the file patch the file loop is at
    csleaks,     \* cs.leaks
    csFound,     \* the leaks checkRules has returned to CommitScanner.Scan so far
    csresult,    \* the leaks CommitScanner.Scan returned
    cserr,       \* whether CommitScanner.Scan returned an error
    patchCalls,  \* calls of parent.Patch
    csRooted,    \* the commit was handed to the files-at-commit scanner
    \* checkDiff
    dpc,         \* where the call of checkDiff is
    dargs,       \* the arguments of the call: diff, commit, filePath,
                 \* branch
    dleaks       \* the leaks checkDiff returned

commonVars == <<prog, opts, timedOut, crashed, scanned, patched>>
repoState  == <<cc, semaphore, wg, leaks, leakWG, iter, wpc, wc, workers, rcv,
                cpc, result, stdout>>
repoHist   == <<examined, allowed, msgAllowed, diffed, rooted, dispatched, produced,
                absorbed, expected, rootFound, sent>>
repoWalk   == <<examined, allowed, msgAllowed, diffed, rooted, dispatched, expected,
                rootFound, sent>>
scanRet    == <<scanErr, opened, walkErr>>
repoVars   == <<repoState, repoHist, scanRet>>
auditVars  == <<apc, aref, acommit, aworkers, commitWg, commitChan, aleaks,
                aresult, audited, refAllowed>>
csVars     == <<spc, snparents, sparent, spatch, sfile, csleaks, csFound,
                csresult, cserr, patchCalls, csRooted>>
diffVars   == <<dpc, dargs, dleaks>>
vars       == <<commonVars, repoVars, auditVars, csVars, diffVars>>

\* isNil: the *object.Patch is nil
NoWorker == [pc |-> "none", isNil |-> FALSE, patch |-> NoPatch, fi |-> 0, ci |-> 0,
             queue |-> << >>]
NoCommit == [Hash |-> 0, isNil |-> FALSE, patch |-> NoPatch, leaks |-> << >>,
             local |-> << >>]
IdleRcv  == [pc |-> "recv", leak |-> << >>, local |-> << >>]

RepoOptions ==
    [Threads : 1..MaxThreads, Depth : 0..MaxDepth, CommitTo : {0},
     Deletion : BOOLEAN, Verbose : BOOLEAN]

\* the default audit of HEAD, --branches-all, and --branch=dev
AuditModes ==
    {[AuditAllBranches |-> FALSE, Branch |-> ""],
     [AuditAllBranches |-> TRUE, Branch |-> ""],
     [AuditAllBranches |-> FALSE, Branch |-> "dev"]}

AuditOptions ==
    {[MaxGoRoutines |-> k, AuditAllBranches |-> m.AuditAllBranches, Branch |-> m.Branch] :
        k \in 0..MaxThreads, m \in AuditModes}

\* the state after NewRepoScanner: receiveLeaks is waiting on rs.leakChan
RepoStart ==
    /\ cc = 0
    /\ semaphore = 0
    /\ wg = 0
    /\ leaks = << >>
    /\ leakWG = 0
    /\ iter = 0
    /\ wpc = "log"
    /\ wc = NoCommit
    /\ workers = [h \in Hashes |-> NoWorker]
    /\ rcv = IdleRcv
    /\ cpc = "Scan"
    /\ result = << >>
    /\ stdout = << >>
    /\ examined = 0
    /\ allowed = {}
    /\ msgAllowed = {}
    /\ diffed = {}
    /\ rooted = {}
    /\ dispatched = {}
    /\ produced = 0
    /\ absorbed = 0
    /\ expected = EmptyBag
    /\ rootFound = << >>
    /\ sent = [h \in Hashes |-> << >>]
    /\ scanErr = "none"
    /\ opened = FALSE
    /\ walkErr = FALSE

\* the state at the call of auditRepo
AuditStart ==
    /\ apc = "head"
    /\ aref = 0
    /\ acommit = 0
    /\ aworkers = {}
    /\ commitWg = 0
    /\ commitChan = << >>
    /\ aleaks = << >>
    /\ aresult = << >>
    /\ audited = {}
    /\ refAllowed = {}

\* the state after NewCommitScanner
CsStart ==
    /\ spc = "start"
    /\ snparents = 0
    /\ sparent = 0
    /\ spatch = NoPatch
    /\ sfile = 0
    /\ csleaks = << >>
    /\ csFound = << >>
    /\ csresult = << >>
    /\ cserr = FALSE
    /\ patchCalls = 0
    /\ csRooted = FALSE

CsOptions == [Deletion : BOOLEAN]

\* no call of checkDiff is followed
NoDiffArgs == [diff |-> << >>, commit |-> 0, filePath |-> "", branch |-> ""]

DiffStart ==
    /\ dpc = "none"
    /\ dargs = NoDiffArgs
    /\ dleaks = << >>

\* A diff string is a sequence of line texts and line breaks in which no two
\* line texts are adjacent: a line text is a whole line.
LineBreak == "\n"

DiffLines == {"k1", "k12", "k1w", "plain"}

DiffStrings ==
    {d \in UNION {[1..n -> DiffLines \cup {LineBreak}] : n \in 0..MaxDiffLen} :
        \A j \in 1..(Len(d) - 1) : d[j] = LineBreak \/ d[j + 1] = LineBreak}

DiffArgs ==
    [diff : DiffStrings, commit : Hashes, filePath : {"a", ""},
     branch : {"", "dev"}]

\* line 532: strings.Split(diff, "\n") from the line cur on: a line for every
\* line break and one for what follows the last, empty lines included
RECURSIVE stringsSplit(_, _)
stringsSplit(diff, cur) ==
    IF diff = << >> THEN << cur >>
    ELSE IF Head(diff) = LineBreak
    THEN << cur >> \o stringsSplit(Tail(diff), "")
    ELSE stringsSplit(Tail(diff), Head(diff))

CommonStart ==
    /\ timedOut = FALSE
    /\ crashed = FALSE
    /\ scanned = {}
    /\ patched = {}

InitRepo ==
    /\ prog = "repo"
    /\ opts \in RepoOptions
    /\ CommonStart /\ RepoStart /\ AuditStart /\ CsStart /\ DiffStart

InitAudit ==
    /\ prog = "audit"
    /\ opts \in AuditOptions
    /\ CommonStart /\ RepoStart /\ AuditStart /\ CsStart /\ DiffStart

InitCommit ==
    /\ prog = "commit"
    /\ opts \in CsOptions
    /\ CommonStart /\ RepoStart /\ AuditStart /\ CsStart /\ DiffStart

\* ------------------------------------------------- RepoScanner.Scan walker
Running == prog = "repo" /\ ~crashed

\* What the history provider and the configuration answer for one commit:
\*   isNil      the iterator hands the callback a nil commit
\*   allow      the commit's hash is in cfg.Allowlist.Commits
\*   msg        c.Message contains an allowlisted message substring (in the
\*              histories drawn here: the commits whose patch is PatchB)
\*   isStop     the commit's hash is opts.CommitTo
\*   nparents   len(c.ParentHashes)
\*   parentErr  c.Parent(0) fails
\*   rootErr    the files-at-commit scan fails
\*   deadline   the deadline passes between line 62 and line 102
\*   patchRes   parent.Patch(c): "ok", "err" (an error is returned) or "panic"
\*   patch      the patch, when patchRes = "ok"
\*   tree       the tree of the commit, when it has no parents
PlainCommit ==
    [isNil |-> FALSE, allow |-> FALSE, msg |-> FALSE, isStop |-> FALSE,
     nparents |-> 1, parentErr |-> FALSE, rootErr |-> FALSE, deadline |-> FALSE,
     patchRes |-> "ok", patch |-> PatchA, tree |-> TreeA]

CommitKinds ==
    {[PlainCommit EXCEPT !.isNil = TRUE]}
    \cup {[PlainCommit EXCEPT !.allow = TRUE, !.nparents = n] : n \in 0..MaxParents}
    \cup {[PlainCommit EXCEPT !.nparents = 0, !.tree = t] : t \in Trees}
    \cup {[PlainCommit EXCEPT !.nparents = 0, !.rootErr = TRUE]}
    \cup {[PlainCommit EXCEPT !.parentErr = TRUE],
          [PlainCommit EXCEPT !.deadline = TRUE],
          [PlainCommit EXCEPT !.patchRes = "panic"],
          [PlainCommit EXCEPT !.patchRes = "err"]}
    \cup {[PlainCommit EXCEPT !.nparents = n, !.patch = p, !.msg = (p = PatchB)] :
            n \in 1..MaxParents, p \in Patches}

\* Hashes are distinct, so at most one commit of the history is the stop commit.
CommitAnswers(o) ==
    CommitKinds
    \cup (IF o.CommitTo = 0 THEN {[k EXCEPT !.isStop = TRUE] : k \in CommitKinds}
          ELSE {})

\* the callback returns nil: ForEach goes on to the next commit
WalkerContinue ==
    /\ wpc' = "iter"
    /\ wc' = NoCommit

\* the callback returns storer.ErrStop or an error: ForEach ends, Scan goes on
\* to wg.Wait()
WalkerStop ==
    /\ wpc' = "wait"
    /\ wc' = NoCommit

\* line 62: the stop check at the head of the callback
walkerStops(a, timeout, count, o) ==
    a.isNil \/ timeout \/ depthReached(count, o)

\* a callback without the allowlist check of line 67
walkerNeverSkips(hash, commits) == FALSE

\* line 67: the commit is skipped because its hash is allowlisted
walkerSkips(hash, commits) == isCommitAllowListed(hash, commits)

\* line 152: the callback ends the walk after dispatching the stop commit
stopsAfter(hash, o) == hash = o.CommitTo

\* a callback that diffs the commit against each of its n parents
repoEveryParent(n) == 0..(n - 1)

\* line 87, 111: the parents a commit with n parents is diffed against:
\* c.Parent(0) alone
repoParents(n) == {0}

\* line 47-54: logOptions and rs.repo.Log; when either fails Scan returns the
\* error before anything is walked or dispatched
ScanOpen ==
    /\ Running /\ wpc = "log"
    /\ \E ok \in BOOLEAN :
         IF ok
         THEN /\ opened' = TRUE
              /\ wpc' = "iter"
              /\ UNCHANGED <<scanErr, cpc>>
         ELSE /\ scanErr' = "err"
              /\ wpc' = "returned"
              /\ cpc' = "GetLeaks"
              /\ UNCHANGED opened
    /\ UNCHANGED <<commonVars, repoHist, auditVars, csVars, diffVars, walkErr>>
    /\ UNCHANGED <<cc, semaphore, wg, leaks, leakWG, iter, wc, workers, rcv,
                   result, stdout>>

\* cIter.ForEach calls the callback with the next commit, whose hash is h.
\* The callback runs up to its first blocking or shared-memory step.
VisitCommit ==
    /\ Running /\ wpc = "iter" /\ iter < MaxCommits
    /\ rooted = {}      \* the parentless commit is the last one of the history
    /\ iter' = iter + 1
    /\ \E a \in CommitAnswers(opts) :
         LET h == iter + 1
             allowlist == IF a.allow THEN allowed \cup {h} ELSE allowed
         IN
         IF walkerStops(a, timedOut, cc, opts)
         THEN \* line 63: return storer.ErrStop
              /\ WalkerStop
              /\ UNCHANGED <<cc, wg, timedOut, examined, allowed, msgAllowed, diffed,
                             patched, rooted,
                             expected, rootFound, opts, walkErr>>
         ELSE
           /\ examined' = examined + 1
           /\ allowed' = allowlist
           /\ msgAllowed' = IF a.msg THEN msgAllowed \cup {h} ELSE msgAllowed
           /\ opts' = IF a.isStop THEN [opts EXCEPT !.CommitTo = h] ELSE opts
           /\ IF walkerSkips(h, allowlist)
              THEN \* line 68: return nil
                   /\ WalkerContinue
                   /\ UNCHANGED <<cc, wg, timedOut, diffed, patched, rooted, expected,
                                  rootFound, walkErr>>
              ELSE IF a.nparents = 0
              THEN \* line 72-77: root commit
                   /\ cc' = cc + 1
                   /\ rooted' = rooted \cup {h}
                   /\ UNCHANGED <<wg, timedOut, diffed, patched>>
                   /\ IF a.rootErr
                      THEN \* line 76: return err
                           /\ WalkerStop
                           /\ walkErr' = TRUE
                           /\ UNCHANGED <<expected, rootFound>>
                      ELSE /\ wpc' = "rootLoad"
                           /\ wc' = [NoCommit EXCEPT !.Hash = h,
                                       !.leaks = filesAtCommit(a.tree, h)]
                           /\ expected' = expected (+) SeqToBag(filesAtCommit(a.tree, h))
                           /\ rootFound' = filesAtCommit(a.tree, h)
                           /\ UNCHANGED walkErr
              ELSE
                   /\ cc' = cc + 1
                   /\ UNCHANGED <<rooted, rootFound>>
                   /\ IF a.parentErr
                      THEN \* line 90: return err
                           /\ WalkerStop
                           /\ walkErr' = TRUE
                           /\ UNCHANGED <<wg, timedOut, diffed, patched, expected>>
                      ELSE IF a.deadline
                      THEN \* line 102: the deadline was reached since line 62
                           /\ timedOut' = TRUE
                           /\ expected' = EmptyBag
                           /\ WalkerContinue
                           /\ UNCHANGED <<wg, diffed, patched, walkErr>>
                      ELSE
                           /\ diffed' = diffed \cup {h}
                           /\ patched' = patched \cup
                                {<<h, p>> : p \in repoParents(a.nparents)}
                           /\ UNCHANGED <<timedOut, walkErr>>
                           /\ IF a.patchRes = "panic"
                              THEN \* line 93-100: recovered by the deferred
                                   \* function, the callback returns nil
                                   /\ WalkerContinue
                                   /\ UNCHANGED <<wg, expected>>
                              ELSE \* line 118: wg.Add(1), then semaphore <- true
                                   /\ wg' = wg + 1
                                   /\ wpc' = "acquire"
                                   /\ wc' = [NoCommit EXCEPT !.Hash = h,
                                               !.isNil = (a.patchRes = "err"),
                                               !.patch = IF a.patchRes = "err"
                                                         THEN NoPatch ELSE a.patch]
                                   /\ expected' =
                                        IF a.patchRes = "err" THEN expected
                                        ELSE expected
                                             (+) SeqToBag(patchLeaks(a.patch, h, opts))
    /\ UNCHANGED <<prog, crashed, scanned>>
    /\ UNCHANGED <<semaphore, leaks, leakWG, workers, rcv, cpc, result, stdout>>
    /\ UNCHANGED <<dispatched, produced, absorbed, sent, scanErr, opened>>
    /\ UNCHANGED <<auditVars, csVars, diffVars>>

\* cIter has no further commit: ForEach returns
IterEnd ==
    /\ Running /\ wpc = "iter"
    /\ WalkerStop
    /\ UNCHANGED <<commonVars, repoHist, auditVars, csVars, diffVars, scanRet>>
    /\ UNCHANGED <<cc, semaphore, wg, leaks, leakWG, iter, workers, rcv, cpc,
                   result, stdout>>

\* line 119-155: semaphore <- true succeeds, the worker goroutine starts, and
\* the callback compares the hash with opts.CommitTo
Dispatch ==
    /\ Running /\ wpc = "acquire"
    /\ semaphore < howManyThreads(opts.Threads)
    /\ semaphore' = semaphore + 1
    /\ workers' = [workers EXCEPT ![wc.Hash] =
                     [NoWorker EXCEPT !.pc = "file", !.isNil = wc.isNil,
                                      !.patch = wc.patch, !.fi = 1, !.ci = 1]]
    /\ dispatched' = dispatched \cup {wc.Hash}
    /\ IF stopsAfter(wc.Hash, opts) THEN WalkerStop ELSE WalkerContinue
    /\ UNCHANGED commonVars
    /\ UNCHANGED <<cc, wg, leaks, leakWG, iter, rcv, cpc, result, stdout>>
    /\ UNCHANGED <<examined, allowed, msgAllowed, diffed, rooted, produced, absorbed,
                   expected, rootFound, sent, auditVars, csVars, diffVars, scanRet>>

\* line 78, first half: the walker reads rs.leaks
RootLoad ==
    /\ Running /\ wpc = "rootLoad"
    /\ wpc' = "rootStore"
    /\ wc' = [wc EXCEPT !.local = leaks]
    /\ UNCHANGED <<commonVars, repoHist, auditVars, csVars, diffVars, scanRet>>
    /\ UNCHANGED <<cc, semaphore, wg, leaks, leakWG, iter, workers, rcv, cpc,
                   result, stdout>>

\* line 78-79, second half: the walker writes rs.leaks; the callback returns nil
RootStore ==
    /\ Running /\ wpc = "rootStore"
    /\ leaks' = wc.local \o wc.leaks
    /\ WalkerContinue
    /\ UNCHANGED <<commonVars, repoHist, auditVars, csVars, diffVars, scanRet>>
    /\ UNCHANGED <<cc, semaphore, wg, leakWG, iter, workers, rcv, cpc, result,
                   stdout>>

\* a Scan that returns the error cIter.ForEach gave it
ScanReturnForEachErr ==
    /\ Running /\ wpc = "wait" /\ wg = 0
    /\ wpc' = "returned"
    /\ scanErr' = IF walkErr THEN "err" ELSE "nil"
    /\ cpc' = "GetLeaks"
    /\ UNCHANGED <<commonVars, repoHist, auditVars, csVars, diffVars, opened, walkErr>>
    /\ UNCHANGED <<cc, semaphore, wg, leaks, leakWG, iter, wc, workers, rcv,
                   result, stdout>>

\* a Scan that returns without wg.Wait()
ScanReturnNoWait ==
    /\ Running /\ wpc = "wait"
    /\ wpc' = "returned"
    /\ scanErr' = "nil"
    /\ cpc' = "GetLeaks"
    /\ UNCHANGED <<commonVars, repoHist, auditVars, csVars, diffVars, opened, walkErr>>
    /\ UNCHANGED <<cc, semaphore, wg, leaks, leakWG, iter, wc, workers, rcv,
                   result, stdout>>

\* line 158-163: wg.Wait() returns, Scan returns nil
ScanReturn ==
    /\ Running /\ wpc = "wait" /\ wg = 0
    /\ wpc' = "returned"
    /\ scanErr' = "nil"
    /\ cpc' = "GetLeaks"
    /\ UNCHANGED <<commonVars, repoHist, auditVars, csVars, diffVars, opened, walkErr>>
    /\ UNCHANGED <<cc, semaphore, wg, leaks, leakWG, iter, wc, workers, rcv,
                   result, stdout>>

\* a GetLeaks that returns rs.leaks without rs.leakWG.Wait()
GetLeaksNoWait ==
    /\ Running /\ cpc = "GetLeaks"
    /\ result' = leaks
    /\ cpc' = "done"
    /\ UNCHANGED <<commonVars, repoHist, auditVars, csVars, diffVars, scanRet>>
    /\ UNCHANGED <<cc, semaphore, wg, leaks, leakWG, iter, wpc, wc, workers, rcv,
                   stdout>>

\* line 182-186, GetLeaks: rs.leakWG.Wait() returns, rs.leaks is returned
GetLeaks ==
    /\ Running /\ cpc = "GetLeaks" /\ leakWG = 0
    /\ result' = leaks
    /\ cpc' = "done"
    /\ UNCHANGED <<commonVars, repoHist, auditVars, csVars, diffVars, scanRet>>
    /\ UNCHANGED <<cc, semaphore, wg, leaks, leakWG, iter, wpc, wc, workers, rcv,
                   stdout>>

\* ------------------------------------------------- RepoScanner.Scan worker
\* a deferred function that calls wg.Done() and keeps the permit
WorkerExitKeepsPermit(h) ==
    /\ wg' = wg - 1
    /\ workers' = [workers EXCEPT ![h] = NoWorker]
    /\ UNCHANGED <<semaphore, leakWG, produced, scanned>>

\* line 121-124: the deferred function of the worker: <-semaphore, wg.Done()
WorkerExit(h) ==
    /\ semaphore' = semaphore - 1
    /\ wg' = wg - 1
    /\ workers' = [workers EXCEPT ![h] = NoWorker]
    /\ UNCHANGED <<leakWG, produced, scanned>>

\* the worker goes on in file patch f from chunk ci: either to the send of the
\* first leak of the next chunk that has any (after rs.leakWG.Add(1), line 144),
\* or to the next file patch
WorkerAdvance(h, w, f, ci) ==
    LET r == repoChunks(f, ci, h, opts) IN
    /\ scanned' = scanned \cup r.seen
    /\ IF r.queue = << >>
       THEN /\ workers' = [workers EXCEPT ![h] =
                             [w EXCEPT !.pc = "file", !.fi = w.fi + 1, !.ci = 1,
                                       !.queue = << >>]]
            /\ UNCHANGED <<leakWG, produced>>
       ELSE /\ workers' = [workers EXCEPT ![h] =
                             [w EXCEPT !.pc = "send", !.ci = r.ci, !.queue = r.queue]]
            /\ leakWG' = leakWG + 1
            /\ produced' = produced + 1

\* line 125-144: patch.FilePatches(), the head of the file patch loop, and the
\* chunks of the file patch up to the first send
WorkerFile(h) ==
    /\ Running /\ workers[h].pc = "file"
    /\ LET w == workers[h] IN
       IF w.isNil
       THEN \* patch is nil: FilePatches() dereferences it, the goroutine panics
            /\ crashed' = TRUE
            /\ UNCHANGED <<semaphore, wg, workers, leakWG, produced, scanned>>
       ELSE /\ UNCHANGED crashed
            /\ IF w.fi > Len(w.patch) \/ timedOut
               THEN WorkerExit(h)
               ELSE /\ UNCHANGED <<semaphore, wg>>
                    /\ IF w.patch[w.fi].IsBinary
                       THEN /\ workers' = [workers EXCEPT ![h].fi = w.fi + 1]
                            /\ UNCHANGED <<leakWG, produced, scanned>>
                       ELSE WorkerAdvance(h, w, w.patch[w.fi], 1)
    /\ UNCHANGED <<prog, opts, timedOut, patched>>
    /\ UNCHANGED <<cc, leaks, iter, wpc, wc, rcv, cpc, result, stdout>>
    /\ UNCHANGED <<examined, allowed, msgAllowed, diffed, rooted, dispatched, absorbed,
                   expected, rootFound, sent, auditVars, csVars, diffVars, scanRet>>

\* line 145 and line 167: rs.leakChan is unbuffered, so the worker's send and
\* receiveLeaks' receive are one step; the worker goes on to its next send
LeakChan(h) ==
    /\ Running /\ workers[h].pc = "send" /\ rcv.pc = "recv"
    /\ LET w == workers[h] IN
       /\ rcv' = [pc |-> "load", leak |-> Head(w.queue), local |-> << >>]
       /\ IF Tail(w.queue) # << >>
          THEN /\ workers' = [workers EXCEPT ![h].queue = Tail(w.queue)]
               /\ leakWG' = leakWG + 1
               /\ produced' = produced + 1
               /\ UNCHANGED scanned
          ELSE WorkerAdvance(h, w, w.patch[w.fi], w.ci + 1)
    /\ sent' = [sent EXCEPT ![h] = Append(@, Head(workers[h].queue))]
    /\ UNCHANGED <<prog, opts, timedOut, crashed, patched>>
    /\ UNCHANGED <<cc, semaphore, wg, leaks, iter, wpc, wc, cpc, result, stdout>>
    /\ UNCHANGED <<examined, allowed, msgAllowed, diffed, rooted, dispatched, absorbed,
                   expected, rootFound, auditVars, csVars, diffVars, scanRet>>

\* ---------------------------------------------- RepoScanner.receiveLeaks
\* line 168, first half: receiveLeaks reads rs.leaks
RcvLoad ==
    /\ Running /\ rcv.pc = "load"
    /\ rcv' = [rcv EXCEPT !.pc = "store", !.local = leaks]
    /\ UNCHANGED <<commonVars, repoHist, auditVars, csVars, diffVars, scanRet>>
    /\ UNCHANGED <<cc, semaphore, wg, leaks, leakWG, iter, wpc, wc, workers, cpc,
                   result, stdout>>

\* a receiveLeaks that puts the leak at the front of rs.leaks
RcvStoreFront ==
    /\ Running /\ rcv.pc = "store"
    /\ leaks' = << rcv.leak >> \o rcv.local
    /\ stdout' = IF opts.Verbose THEN Append(stdout, rcv.leak) ELSE stdout
    /\ leakWG' = leakWG - 1
    /\ absorbed' = absorbed + 1
    /\ rcv' = IdleRcv
    /\ UNCHANGED commonVars
    /\ UNCHANGED <<cc, semaphore, wg, iter, wpc, wc, workers, cpc, result>>
    /\ UNCHANGED <<examined, allowed, msgAllowed, diffed, rooted, dispatched, produced,
                   expected, rootFound, sent, auditVars, csVars, diffVars, scanRet>>

\* line 168-178: receiveLeaks writes rs.leaks, prints the leak when verbose,
\* and calls rs.leakWG.Done()
RcvStore ==
    /\ Running /\ rcv.pc = "store"
    /\ leaks' = Append(rcv.local, rcv.leak)
    /\ stdout' = IF opts.Verbose THEN Append(stdout, rcv.leak) ELSE stdout
    /\ leakWG' = leakWG - 1
    /\ absorbed' = absorbed + 1
    /\ rcv' = IdleRcv
    /\ UNCHANGED commonVars
    /\ UNCHANGED <<cc, semaphore, wg, iter, wpc, wc, workers, cpc, result>>
    /\ UNCHANGED <<examined, allowed, msgAllowed, diffed, rooted, dispatched, produced,
                   expected, rootFound, sent, auditVars, csVars, diffVars, scanRet>>

\* the deadline of the scanner's context passes
Timeout ==
    /\ ~crashed /\ ~timedOut
    /\ \/ prog = "repo" /\ cpc # "done"
       \/ prog = "commit" /\ spc # "done"
    /\ timedOut' = TRUE
    /\ expected' = EmptyBag
    /\ UNCHANGED <<rootFound, sent>>
    /\ UNCHANGED <<prog, opts, crashed, scanned, patched, repoState>>
    /\ UNCHANGED <<examined, allowed, msgAllowed, diffed, rooted, dispatched, produced,
                   absorbed>>
    /\ UNCHANGED <<auditVars, csVars, diffVars, scanRet>>

\* ---------------------------------------------------------- auditRepo
Auditing == prog = "audit" /\ ~crashed

\* line 489: every reference is iterated, not HEAD alone
allRefs(o) == o.AuditAllBranches \/ o.Branch # ""

\* line 396-399
limitGoRoutines(o) == o.MaxGoRoutines # 0

\* the permits held in the semaphore that the auditBranch call on ref made
held(ref) == Cardinality({w \in aworkers : w.ref = ref /\ w.holds})

\* line 496-504: the reference is skipped
skipBranch(ref, suffixed) == ref \in suffixed

\* line 481-510: r.Head(), then either r.Storer.IterReferences() or the call
\* of auditBranch on HEAD, up to r.Log in auditBranch
AuditHead ==
    /\ Auditing /\ apc = "head"
    /\ \E headErr \in BOOLEAN, refsErr \in BOOLEAN, suffix \in BOOLEAN,
          logErr \in BOOLEAN :
         IF headErr \/ (allRefs(opts) /\ refsErr)
         THEN \* line 483, 493: return leaks, err
              /\ apc' = "done"
              /\ aresult' = aleaks
              /\ UNCHANGED <<aref, audited, refAllowed>>
         ELSE IF allRefs(opts)
         THEN /\ apc' = "refs"
              /\ UNCHANGED <<aref, aresult, audited, refAllowed>>
         ELSE \* line 509: auditBranch on HEAD, whatever its name
              /\ aref' = 1
              /\ refAllowed' = IF suffix THEN {1} ELSE {}
              /\ audited' = {1}
              /\ apc' = IF logErr THEN "wait" ELSE "branch"
              /\ UNCHANGED aresult
    /\ UNCHANGED <<acommit, aworkers, commitWg, commitChan, aleaks>>
    /\ UNCHANGED <<commonVars, repoVars, csVars, diffVars>>

\* line 495-507: refs.ForEach calls the callback with the next reference
AuditNextRef ==
    /\ Auditing /\ apc = "refs" /\ aref < MaxRefs
    /\ aref' = aref + 1
    /\ \E suffix \in BOOLEAN, logErr \in BOOLEAN :
         LET suffixed == IF suffix THEN refAllowed \cup {aref + 1} ELSE refAllowed
         IN  /\ refAllowed' = suffixed
             /\ IF skipBranch(aref + 1, suffixed)
                THEN UNCHANGED <<apc, audited>>
                ELSE /\ audited' = audited \cup {aref + 1}
                     /\ apc' = IF logErr THEN "refs" ELSE "branch"
    /\ acommit' = 0
    /\ UNCHANGED <<aworkers, commitWg, commitChan, aleaks, aresult>>
    /\ UNCHANGED <<commonVars, repoVars, csVars, diffVars>>

\* refs.ForEach has no further reference: the goroutine that drains
\* commitChan is started (line 512) and auditRepo waits (line 524)
AuditRefsEnd ==
    /\ Auditing /\ apc = "refs"
    /\ apc' = "wait"
    /\ UNCHANGED <<aref, acommit, aworkers, commitWg, commitChan, aleaks, aresult,
                   audited, refAllowed>>
    /\ UNCHANGED <<commonVars, repoVars, csVars, diffVars>>

\* line 404-409, 466: the callback of auditBranch for the next commit:
\* semaphore <- true, commitWg.Add(1), go
BranchCommit ==
    /\ Auditing /\ apc = "branch" /\ acommit < MaxCommits
    /\ limitGoRoutines(opts) => held(aref) < opts.MaxGoRoutines
    /\ acommit' = acommit + 1
    /\ commitWg' = commitWg + 1
    /\ produced' = produced + 1
    /\ aworkers' = aworkers \cup
         {[ref |-> aref, c |-> acommit + 1, pc |-> "run",
           holds |-> limitGoRoutines(opts), isNil |-> FALSE, out |-> << >>]}
    /\ UNCHANGED <<apc, aref, commitChan, aleaks, aresult, audited, refAllowed>>
    /\ UNCHANGED <<commonVars, repoState, repoWalk, scanRet, absorbed, csVars, diffVars>>

\* cIter has no further commit: auditBranch returns
BranchEnd ==
    /\ Auditing /\ apc = "branch"
    /\ apc' = IF allRefs(opts) THEN "refs" ELSE "wait"
    /\ UNCHANGED <<aref, acommit, aworkers, commitWg, commitChan, aleaks, aresult,
                   audited, refAllowed>>
    /\ UNCHANGED <<commonVars, repoVars, csVars, diffVars>>

\* line 411-462: the worker up to its send: c.Tree(), tree.Diff(prevTree),
\* treeChanges.Patch(), the file patches and their chunks, <-semaphore
AuditWorkerRun(w) ==
    /\ Auditing /\ w \in aworkers /\ w.pc = "run"
    /\ \E res \in {"ok", "treeErr", "diffErr", "patchErr"}, patch \in AuditPatches,
          order \in RuleOrders :
         IF res = "patchErr"
         THEN \* the error of Patch() is dropped and patch is nil:
              \* FilePatches() dereferences it, the goroutine panics
              /\ crashed' = TRUE
              /\ UNCHANGED <<aworkers, scanned>>
         ELSE IF res \in {"treeErr", "diffErr"}
         THEN \* line 413-429: <-semaphore, then commitChan <- nil
              /\ aworkers' = (aworkers \ {w}) \cup
                   {[w EXCEPT !.pc = "send", !.holds = FALSE, !.isNil = TRUE]}
              /\ UNCHANGED <<crashed, scanned>>
         ELSE /\ aworkers' = (aworkers \ {w}) \cup
                   {[w EXCEPT !.pc = "send", !.holds = FALSE,
                       !.out = auditPatchLeaks(patch, <<w.ref, w.c>>, w.ref, order)]}
              /\ scanned' = scanned \cup auditSeen(patch)
              /\ UNCHANGED crashed
    /\ UNCHANGED <<apc, aref, acommit, commitWg, commitChan, aleaks, aresult,
                   audited, refAllowed>>
    /\ UNCHANGED <<prog, opts, timedOut, patched, repoVars, csVars, diffVars>>

\* line 417, 426, 463: the send on commitChan, whose capacity is 1
AuditWorkerSend(w) ==
    /\ Auditing /\ w \in aworkers /\ w.pc = "send"
    /\ Len(commitChan) < 1
    /\ commitChan' = Append(commitChan, [isNil |-> w.isNil, leaks |-> w.out])
    /\ aworkers' = aworkers \ {w}
    /\ UNCHANGED <<apc, aref, acommit, commitWg, aleaks, aresult, audited,
                   refAllowed>>
    /\ UNCHANGED <<commonVars, repoVars, csVars, diffVars>>

\* line 513-521: the draining goroutine receives one message, appends its
\* leaks and calls commitWg.Done()
AuditConsume ==
    /\ Auditing /\ apc = "wait" /\ commitChan # << >>
    /\ LET commitLeaks == Head(commitChan)
       IN  aleaks' = IF commitLeaks.isNil THEN aleaks
                     ELSE aleaks \o commitLeaks.leaks
    /\ commitChan' = Tail(commitChan)
    /\ commitWg' = commitWg - 1
    /\ absorbed' = absorbed + 1
    /\ UNCHANGED <<apc, aref, acommit, aworkers, aresult, audited, refAllowed>>
    /\ UNCHANGED <<commonVars, repoState, repoWalk, scanRet, produced, csVars, diffVars>>

\* line 524-526: commitWg.Wait() returns, auditRepo returns leaks
AuditReturn ==
    /\ Auditing /\ apc = "wait" /\ commitWg = 0
    /\ aresult' = aleaks
    /\ apc' = "done"
    /\ UNCHANGED <<aref, acommit, aworkers, commitWg, commitChan, aleaks, audited,
                   refAllowed>>
    /\ UNCHANGED <<commonVars, repoVars, csVars, diffVars>>

\* ------------------------------------------------------ CommitScanner.Scan
Committing == prog = "commit" /\ ~crashed

\* the commit CommitScanner was made for
TheCommit == 1

\* line 64: the chunk filter of CommitScanner.Scan
csChunkScanned(chunk, o) ==
    chunk.Type = Add \/ (o.Deletion /\ chunk.Type = Delete)

\* line 65-73: the file path CommitScanner.Scan attaches to a chunk's leaks
csFilePath(f) ==
    IF f.From # NoFile THEN f.From
    ELSE IF f.To # NoFile THEN f.To
    ELSE "???"

\* line 54: patch.String(), as the lines of the chunks of the patch in order
RECURSIVE chunksString(_)
chunksString(chunks) ==
    IF chunks = << >> THEN << >>
    ELSE Head(chunks).Content \o chunksString(Tail(chunks))

RECURSIVE patchString(_)
patchString(patch) ==
    IF patch = << >> THEN << >>
    ELSE chunksString(Head(patch).Chunks) \o patchString(Tail(patch))

\* extractLine: the position in the patch text of the first line that is the
\* leak's line, 0 when there is none
extractLine(patchContent, leak) ==
    LET at == {j \in 1..Len(patchContent) : patchContent[j] = leak.Line}
    IN  IF at = {} THEN 0 ELSE CHOOSE j \in at : \A k \in at : j <= k

\* line 76-79: the loop over leaks assigns extractLine's result to the
\* LineNumber of its loop variable, a copy of the element: the slice keeps the
\* leaks as checkRules made them
csBackfill(found, patchContent) ==
    [i \in 1..Len(found) |->
        LET leak == [found[i] EXCEPT
                        !.LineNumber = extractLine(patchContent, found[i])]
        IN  found[i]]

\* line 63-82: the chunk loop of one file patch of the patch with text
\* patchContent, from cs.leaks before it to cs.leaks after it; line 80 assigns
\* the leaks of the chunk to cs.leaks
RECURSIVE csChunks(_, _, _, _, _)
csChunks(chunks, f, o, before, patchContent) ==
    IF chunks = << >> THEN before
    ELSE csChunks(Tail(chunks), f, o,
                  IF csChunkScanned(Head(chunks), o)
                  THEN csBackfill(checkRules(csFilePath(f), TheCommit,
                                             Head(chunks).Content), patchContent)
                  ELSE before,
                  patchContent)

\* line 74: what checkRules returns for the scanned chunks of one file patch,
\* in chunk order
RECURSIVE csChunksFound(_, _, _)
csChunksFound(chunks, f, o) ==
    IF chunks = << >> THEN << >>
    ELSE (IF csChunkScanned(Head(chunks), o)
          THEN checkRules(csFilePath(f), TheCommit, Head(chunks).Content)
          ELSE << >>)
         \o csChunksFound(Tail(chunks), f, o)

\* the <<type, binary>> of the chunks of a file patch passed to checkRules
csSeen(f, o) ==
    {<<f.Chunks[j].Type, f.IsBinary>> :
        j \in {x \in 1..Len(f.Chunks) : csChunkScanned(f.Chunks[x], o)}}

\* line 28-33: a parentless commit goes to the files-at-commit scanner, whose
\* result is returned; any other commit enters the parent loop
CsBegin ==
    /\ Committing /\ spc = "start"
    /\ \E n \in 0..MaxParents, tree \in Trees, rootErr \in BOOLEAN :
         IF n = 0
         THEN /\ csRooted' = TRUE
              /\ csresult' = IF rootErr THEN << >> ELSE filesAtCommit(tree, TheCommit)
              /\ cserr' = rootErr
              /\ spc' = "done"
              /\ UNCHANGED <<snparents, sparent>>
         ELSE /\ snparents' = n
              /\ sparent' = 1
              /\ spc' = "parent"
              /\ UNCHANGED <<csRooted, csresult, cserr>>
    /\ UNCHANGED <<spatch, sfile, csleaks, csFound, patchCalls>>
    /\ UNCHANGED <<commonVars, repoVars, auditVars, diffVars>>

\* line 33-54: the callback of the parent loop up to the file patch loop, and
\* the return of Scan when the loop has ended
CsParent ==
    /\ Committing /\ spc = "parent"
    /\ \E patchRes \in {"ok", "err", "panic"}, patch \in Patches :
         IF sparent > snparents
         THEN \* line 86: return cs.leaks, err
              /\ csresult' = csleaks
              /\ cserr' = FALSE
              /\ spc' = "done"
              /\ UNCHANGED <<sparent, spatch, sfile, patchCalls, patched>>
         ELSE IF timedOut
         THEN \* line 42: return nil
              /\ sparent' = sparent + 1
              /\ UNCHANGED <<spc, spatch, sfile, patchCalls, patched, csresult, cserr>>
         ELSE
              /\ patchCalls' = patchCalls + 1
              /\ patched' = patched \cup {<<TheCommit, sparent - 1>>}
              /\ IF patchRes = "panic"
                 THEN \* line 34-41: recovered, the callback returns nil
                      /\ sparent' = sparent + 1
                      /\ UNCHANGED <<spc, spatch, sfile, csresult, cserr>>
                 ELSE IF patchRes = "err"
                 THEN \* line 50: the error ends the loop, line 86 returns it
                      /\ csresult' = csleaks
                      /\ cserr' = TRUE
                      /\ spc' = "done"
                      /\ UNCHANGED <<sparent, spatch, sfile>>
                 ELSE /\ spatch' = patch
                      /\ sfile' = 1
                      /\ spc' = "file"
                      /\ UNCHANGED <<sparent, csresult, cserr>>
    /\ UNCHANGED <<snparents, csleaks, csFound, csRooted>>
    /\ UNCHANGED <<prog, opts, timedOut, crashed, scanned, repoVars, auditVars, diffVars>>

\* line 56-84: one round of the file patch loop
CsFile ==
    /\ Committing /\ spc = "file"
    /\ IF sfile > Len(spatch) \/ timedOut
       THEN \* line 58, 84: return nil, on to the next parent
            /\ sparent' = sparent + 1
            /\ spc' = "parent"
            /\ spatch' = NoPatch
            /\ sfile' = 0
            /\ UNCHANGED <<csleaks, csFound, scanned>>
       ELSE /\ sfile' = sfile + 1
            /\ UNCHANGED <<sparent, spc, spatch>>
            /\ IF spatch[sfile].IsBinary
               THEN UNCHANGED <<csleaks, csFound, scanned>>
               ELSE /\ csleaks' = csChunks(spatch[sfile].Chunks, spatch[sfile], opts,
                                           csleaks, patchString(spatch))
                    /\ csFound' = csFound \o csChunksFound(spatch[sfile].Chunks,
                                                          spatch[sfile], opts)
                    /\ scanned' = scanned \cup csSeen(spatch[sfile], opts)
    /\ UNCHANGED <<snparents, csresult, cserr, patchCalls, csRooted>>
    /\ UNCHANGED <<prog, opts, timedOut, crashed, patched, repoVars, auditVars, diffVars>>

\* ------------------------------------------------------------ checkDiff
\* line 531-572: one call of checkDiff; the range over the map regexes visits
\* the rules in an order of its own
CheckDiffCall ==
    /\ prog = "diff" /\ dpc = "call"
    /\ \E order \in RuleOrders :
         dleaks' = checkDiff(stringsSplit(dargs.diff, ""), dargs.commit,
                             dargs.filePath, dargs.branch, order)
    /\ dpc' = "done"
    /\ UNCHANGED <<dargs, commonVars, repoVars, auditVars, csVars>>

\* a call of checkDiff on its own
InitDiff ==
    /\ prog = "diff"
    /\ opts = [Deletion |-> FALSE]
    /\ CommonStart /\ RepoStart /\ AuditStart /\ CsStart
    /\ dpc = "call"
    /\ dargs \in DiffArgs
    /\ dleaks = << >>

\* ------------------------------------------------------- specification
Init == InitRepo \/ InitAudit \/ InitCommit

NextRepo ==
    \/ ScanOpen
    \/ VisitCommit
    \/ IterEnd
    \/ Dispatch
    \/ RootLoad
    \/ RootStore
    \/ ScanReturn
    \/ GetLeaks
    \/ \E h \in Hashes : WorkerFile(h)
    \/ \E h \in Hashes : LeakChan(h)
    \/ RcvLoad
    \/ RcvStore
    \/ Timeout

NextAudit ==
    \/ AuditHead
    \/ AuditNextRef
    \/ AuditRefsEnd
    \/ BranchCommit
    \/ BranchEnd
    \/ \E w \in aworkers : AuditWorkerRun(w)
    \/ \E w \in aworkers : AuditWorkerSend(w)
    \/ AuditConsume
    \/ AuditReturn

NextCommit ==
    \/ CsBegin
    \/ CsParent
    \/ CsFile

Next == NextRepo \/ NextAudit \/ NextCommit

Spec == Init /\ [][Next]_vars

\* RepoScanner alone: NewRepoScanner, Scan, GetLeaks
SpecRepo == InitRepo /\ [][NextRepo]_vars

\* package scan: RepoScanner or CommitScanner
SpecScan == (InitRepo \/ InitCommit) /\ [][NextRepo \/ NextCommit]_vars

\* the steps of the goroutines of a RepoScanner.Scan: the walker, the workers
\* and receiveLeaks
ScanSteps ==
    \/ ScanOpen
    \/ VisitCommit
    \/ IterEnd
    \/ Dispatch
    \/ RootLoad
    \/ RootStore
    \/ ScanReturn
    \/ \E h \in Hashes : WorkerFile(h)
    \/ \E h \in Hashes : LeakChan(h)
    \/ RcvLoad
    \/ RcvStore

\* RepoScanner alone under a fair scheduler: while some goroutine of the scan
\* can take a step, one of them does in the end; the deadline need not pass
\* and GetLeaks need not be called
SpecRepoFair == InitRepo /\ [][NextRepo]_vars /\ WF_vars(ScanSteps)

\* checkDiff alone
SpecDiff == InitDiff /\ [][CheckDiffCall]_vars

\* ================================================================ claims
\* C1: with a concurrency limit K >= 1, at no instant do more than K workers
\* hold a pool permit: in RepoScanner.Scan for every history, and in
\* auditRepo/auditBranch with MaxGoRoutines = K also while several references
\* are audited one after another.
C1_PermitsWithinLimit ==
    /\ prog = "repo" =>
         /\ semaphore <= opts.Threads
         /\ Cardinality({h \in Hashes : workers[h].pc # "none"}) <= opts.Threads
    /\ (prog = "audit" /\ opts.MaxGoRoutines >= 1) =>
         Cardinality({w \in aworkers : w.holds}) <= opts.MaxGoRoutines

\* C2: when GetLeaks (called after Scan has returned) or auditRepo returns,
\* the number of leakWG.Add / commitWg.Add events equals the number of
\* appends followed by Done in the single consumer, and it stays so: nothing
\* is produced after the return.
C2_ProducedEqualsAbsorbed ==
    /\ (prog = "repo" /\ cpc = "done") =>
         /\ produced = absorbed
         /\ \A h \in Hashes : workers[h].pc = "none"
         /\ rcv.pc = "recv"
    /\ (prog = "audit" /\ apc = "done") =>
         /\ produced = absorbed
         /\ aworkers = {}
         /\ commitChan = << >>

\* GetLeaks has returned after two workers and the receiver handled several leaks
C2_Witness ==
    /\ prog = "repo" /\ cpc = "done"
    /\ dispatched = Hashes
    /\ produced >= 2
    /\ absorbed = produced

\* C3: rs.leaks is mutated only by receiveLeaks or under synchronization with
\* it: the walker is never between reading and writing rs.leaks (the append
\* of the root scanner's leaks) while a worker is still producing leaks or
\* receiveLeaks is appending one.
C3_SingleWriter ==
    (prog = "repo" /\ wpc \in {"rootLoad", "rootStore"}) =>
        /\ \A h \in Hashes : workers[h].pc = "none"
        /\ rcv.pc = "recv"

\* C4: a non-root commit whose parent.Patch panics or returns an error
\* contributes no leak, and the fault never crashes the process.
C4_DiffFaultContained ==
    prog = "repo" =>
        LET panicked == {h \in diffed \ dispatched :
                            ~(wpc = "acquire" /\ wc.Hash = h)}
            errored  == {h \in Hashes : workers[h].isNil}
                        \cup (IF wpc = "acquire" /\ wc.isNil THEN {wc.Hash} ELSE {})
        IN  /\ ~crashed
            /\ \A i \in 1..Len(leaks) : leaks[i].Commit \notin panicked \cup errored

\* C5: with stop commit X = opts.CommitTo, no commit that follows X in
\* traversal order is diffed, dispatched to a worker or root-scanned.
C5_HaltsAtStopCommit ==
    (prog = "repo" /\ opts.CommitTo # 0) =>
        \A h \in diffed \cup dispatched \cup rooted : h <= opts.CommitTo

\* C6: the commit counter is incremented for every commit the walker
\* examines, allowlisted ones included, so that with depth limit D > 0 at
\* most D commits of the history are examined.
C6_DepthBoundsExamined ==
    prog = "repo" =>
        /\ cc = examined
        /\ opts.Depth > 0 => examined <= opts.Depth

\* C7: a commit whose hash is in the commit allowlist is never diffed, never
\* root-scanned and never dispatched to a worker, and no leak carries its
\* hash, neither in rs.leaks, nor on its way to it, nor in what GetLeaks returns.
C7_AllowlistedCommitUntouched ==
    prog = "repo" =>
        /\ allowed \cap (diffed \cup rooted \cup dispatched) = {}
        /\ \A i \in 1..Len(leaks) : leaks[i].Commit \notin allowed
        /\ \A i \in 1..Len(result) : result[i].Commit \notin allowed
        /\ \A h \in Hashes : \A i \in 1..Len(workers[h].queue) :
               workers[h].queue[i].Commit \notin allowed
        /\ rcv.pc # "recv" => rcv.leak.Commit \notin allowed

\* GetLeaks has returned leaks of a history one commit of which is allowlisted
C7_Witness ==
    /\ prog = "repo" /\ cpc = "done"
    /\ allowed # {}
    /\ examined = MaxCommits
    /\ result # << >>

\* C8: when no deadline was reached, the multiset of leaks GetLeaks returns
\* is the multiset union of the root scanner's leaks and of the leaks of every
\* scanned chunk of every dispatched commit, under every interleaving and for
\* every number of threads.
C8_ResultIsUnionOfFindings ==
    (prog = "repo" /\ cpc = "done" /\ ~timedOut) =>
        SeqToBag(result) = expected

\* C9: a parentless commit goes to the files-at-commit scanner, parent.Patch is
\* never called for it, and every leak that scanner reported is among the
\* leaks finally returned.
C9_RootScanFindingsReturned ==
    /\ prog = "repo" =>
         /\ rooted \cap diffed = {}
         /\ cpc = "done" =>
              \A i \in 1..Len(rootFound) :
                  \E j \in 1..Len(result) : result[j] = rootFound[i]
    /\ (prog = "commit" /\ csRooted) =>
         /\ patchCalls = 0
         /\ (spc = "done" /\ ~cserr) =>
              \E tree \in Trees : csresult = filesAtCommit(tree, TheCommit)

\* C10: in the RepoScanner.Scan worker, CommitScanner.Scan and the auditBranch
\* worker a chunk is passed to rule matching only if its file patch is not
\* binary and it is an addition, or a deletion while opts.Deletion is set
\* (auditRepo has no such option).
C10_OnlyChangedChunksScanned ==
    \A s \in scanned :
        /\ ~s[2]
        /\ \/ s[1] = Add
           \/ s[1] = Delete /\ prog \in {"repo", "commit"} /\ opts.Deletion

\* C11: auditRepo never calls auditBranch on a reference whose name ends with
\* an allowlisted branch suffix, in every mode (all branches, a named branch,
\* HEAD alone), and a reference that does not end with one is not skipped
\* because another one was.
C11_AllowlistedBranchSkipped ==
    prog = "audit" =>
        /\ audited \cap refAllowed = {}
        /\ \A w \in aworkers : w.ref \notin refAllowed
        /\ apc \in {"refs", "branch", "wait", "done"} =>
             \A ref \in 1..aref : ref \notin refAllowed => ref \in audited

\* C12: RepoScanner.Scan calls Patch for a commit with parents once, on
\* parent 0 and on no other parent; CommitScanner.Scan calls Patch once on
\* each of the n parents, unless the deadline is reached or an error ends the
\* parent loop.
C12_ParentsDiffed ==
    /\ prog = "repo" =>
         /\ \A h \in diffed : {x \in patched : x[1] = h} = {<<h, 0>>}
         /\ \A x \in patched : x[1] \in diffed
    /\ prog = "commit" =>
         /\ patchCalls = Cardinality(patched)
         /\ patched \subseteq {<<TheCommit, p>> : p \in 0..(snparents - 1)}
         /\ (spc = "done" /\ ~csRooted /\ ~cserr /\ ~timedOut) =>
              patched = {<<TheCommit, p>> : p \in 0..(snparents - 1)}

\* CommitScanner.Scan has returned for a commit with several parents, without
\* deadline or error
C12_Witness ==
    /\ prog = "commit" /\ spc = "done"
    /\ snparents = MaxParents
    /\ ~cserr /\ ~timedOut
    /\ patchCalls = MaxParents

\* C13: once the deadline has been reached RepoScanner.Scan calls Patch or
\* the files-at-commit scanner for no further commit, and a worker passes no
\* further chunk to rule matching.
C13_DeadlineStopsWork ==
    [][(prog = "repo" /\ timedOut) =>
          /\ scanned' = scanned
          /\ diffed' = diffed
          /\ rooted' = rooted]_vars

\* C14: a commit whose message contains an allowlisted substring is skipped
\* before any diff is generated for it: it is never diffed, root-scanned or
\* dispatched, and no leak carries its hash.
C14_AllowlistedMessageSkipped ==
    prog = "repo" =>
        /\ msgAllowed \cap (diffed \cup rooted \cup dispatched) = {}
        /\ \A i \in 1..Len(leaks) : leaks[i].Commit \notin msgAllowed
        /\ \A i \in 1..Len(result) : result[i].Commit \notin msgAllowed

\* C15: with opts.Verbose set, every leak in the list GetLeaks returns has
\* been printed, once for each time it is in the list, when it was appended
\* and before GetLeaks returns; with opts.Verbose unset nothing is printed.
C15_VerboseEmitsEachFinding ==
    prog = "repo" =>
        /\ ~opts.Verbose => stdout = << >>
        /\ (opts.Verbose /\ cpc = "done") =>
             SeqToBag(result) \sqsubseteq SeqToBag(stdout)

\* C16: CommitScanner.Scan returns the leaks of every scanned chunk of every
\* file patch against every parent, in file-chunk-line order: a later chunk or
\* parent removes none found earlier, and a deadline or an error part-way
\* returns those found so far.
C16_CommitScanKeepsFindings ==
    (prog = "commit" /\ spc = "done" /\ ~csRooted) => csresult = csFound

\* C17: the file path attached to a chunk's leaks is the to-path of the file
\* patch when it has a to-file, otherwise its from-path, otherwise "???": for
\* the leaks a RepoScanner worker is sending, for cs.leaks of CommitScanner,
\* and for the leaks of an auditBranch worker.
C17_FilePathPrefersTo ==
    LET wanted(f) == IF f.To # NoFile THEN f.To
                     ELSE IF f.From # NoFile THEN f.From
                     ELSE "???"
        paths(ps) == {wanted(p[i]) : <<p, i>> \in
                        {x \in ps \X (1..2) : x[2] <= Len(x[1])}}
    IN  /\ prog = "repo" =>
             \A h \in Hashes :
                 workers[h].pc = "send" =>
                     \A i \in 1..Len(workers[h].queue) :
                         workers[h].queue[i].File
                             = wanted(workers[h].patch[workers[h].fi])
        /\ prog = "commit" =>
             \A i \in 1..Len(csleaks) : csleaks[i].File \in paths(Patches)
        /\ prog = "audit" =>
             \A w \in aworkers : \A i \in 1..Len(w.out) :
                 w.out[i].File \in paths(AuditPatches)

\* C18: in RepoScanner.Scan a callback that counted its commit (it passed the
\* stop check and the allowlist check) never ends the walk in that step, so a
\* failure of c.Parent(0) or of the root scan drops that commit alone and the
\* walker goes on to the next commit; in CommitScanner.Scan an error of
\* parent.Patch ends the scan and is the error returned.
C18_WalkerSurvivesCommitFailure ==
    [][/\ (prog = "repo" /\ wpc = "iter" /\ cc' = cc + 1) => wpc' # "wait"
       /\ (prog = "commit" /\ cserr' /\ ~cserr) => spc' = "done"]_vars

\* C19 as stated: once RepoScanner.Scan has returned no dispatched worker is
\* running and every finding a worker sent has been appended to rs.leaks.
C19_ScanReturnsAfterAbsorption ==
    (prog = "repo" /\ wpc = "returned") =>
        /\ \A h \in Hashes : workers[h] = NoWorker
        /\ produced = absorbed

\* C19, amended: once RepoScanner.Scan has returned no dispatched worker is
\* running (wg.Wait); once GetLeaks has returned every finding a worker sent
\* has been appended and the aggregator is idle (rs.leakWG.Wait). Between the
\* two returns a sent finding may still be on its way into rs.leaks.
C19_ScanWaitsWorkersGetLeaksWaitsAbsorption ==
    prog = "repo" =>
        /\ wpc = "returned" =>
             /\ \A h \in Hashes : workers[h] = NoWorker
             /\ wg = 0 /\ semaphore = 0
        /\ cpc = "done" =>
             /\ wpc = "returned"
             /\ produced = absorbed /\ leakWG = 0 /\ rcv = IdleRcv

\* Scan has returned after its workers sent findings, one of which the
\* aggregator has received and not yet appended
C19_Witness ==
    /\ prog = "repo" /\ wpc = "returned" /\ cpc = "GetLeaks"
    /\ dispatched # {} /\ produced > absorbed /\ rcv.pc = "store"

\* C20: a worker sends its commit's leaks in file-chunk-line order, and in the
\* list GetLeaks returned any two leaks of the same dispatched commit stand in
\* the order in which the commit's worker sent them, whatever the other
\* commits' workers did in between.
C20_CommitOrderPreserved ==
    prog = "repo" =>
        \A h \in Hashes :
            /\ \E p \in Patches :
                   LET all == patchLeaks(p, h, opts) IN
                   /\ Len(sent[h]) <= Len(all)
                   /\ sent[h] = SubSeq(all, 1, Len(sent[h]))
            /\ (cpc = "done" /\ h \in dispatched) =>
                   \A i, j \in 1..Len(result) :
                       (i < j /\ result[i].Commit = h /\ result[j].Commit = h) =>
                           \E a, b \in 1..Len(sent[h]) :
                               /\ a < b
                               /\ sent[h][a] = result[i]
                               /\ sent[h][b] = result[j]

\* GetLeaks returned two leaks of one commit with a leak of another commit's
\* worker between them
C20_Witness ==
    /\ prog = "repo" /\ cpc = "done" /\ Len(result) >= 3
    /\ result[1].Commit = result[3].Commit
    /\ result[1].Commit # result[2].Commit
    /\ {result[1].Commit, result[2].Commit} \subseteq dispatched
    /\ result[1] # result[3]

\* C21: checkDiff returns one finding for each pair of a line of the diff and
\* a rule whose pattern has a non-empty match in the line while no allowlist
\* pattern matches the line, and no other finding; the findings stand in line
\* order, and each has the whole line as Line, the match as Offender, and the
\* Commit, File and Branch of the call.
C21_CheckDiffFindings ==
    (prog = "diff" /\ dpc = "done") =>
        LET d == dargs.diff
            ruleSet == {Rules[i] : i \in 1..Len(Rules)}
            pairs == {x \in (1..Len(d)) \X ruleSet :
                        /\ d[x[1]] # LineBreak
                        /\ FindString(x[2], d[x[1]]) # ""
                        /\ AllowlistFindString(d[x[1]]) = ""}
        IN  /\ Len(dleaks) = Cardinality(pairs)
            /\ \E pos \in [1..Len(dleaks) -> 1..Len(d)] :
                 /\ \A k, l \in 1..Len(dleaks) : k < l => pos[k] <= pos[l]
                 /\ \A x \in pairs :
                      Cardinality({k \in 1..Len(dleaks) :
                                     pos[k] = x[1] /\ dleaks[k].Type = x[2]}) = 1
                 /\ \A k \in 1..Len(dleaks) :
                      /\ <<pos[k], dleaks[k].Type>> \in pairs
                      /\ dleaks[k].Line = d[pos[k]]
                      /\ dleaks[k].Offender = FindString(dleaks[k].Type, d[pos[k]])
                      /\ dleaks[k].Commit = dargs.commit
                      /\ dleaks[k].File = dargs.filePath
                      /\ dleaks[k].Branch = dargs.branch

\* checkDiff returned from a diff with a line two rules match, a line an
\* allowlist pattern matches, and an empty line
C21_Witness ==
    /\ prog = "diff" /\ dpc = "done"
    /\ dargs.diff = <<"k1w", LineBreak, "k12", LineBreak>>
    /\ Len(dleaks) = 2 /\ dleaks[1].Type = "R2"

\* C22: every finding CommitScanner.Scan returned from the parent loop has as
\* its LineNumber the line number extractLine computes for it from the text of
\* a patch that holds its line.
C22_LineNumberBackfilled ==
    (prog = "commit" /\ spc = "done" /\ ~csRooted) =>
        \A i \in 1..Len(csresult) :
            \E p \in Patches :
                /\ extractLine(patchString(p), csresult[i]) # 0
                /\ csresult[i].LineNumber = extractLine(patchString(p), csresult[i])

\* C23: RepoScanner.Scan returns nil whenever logOptions and repo.Log
\* succeeded: an error the callback returned ends the walk and is dropped,
\* Scan still waits for every dispatched worker; Scan returns an error only
\* when it could not open the iterator, and then nothing was walked or
\* dispatched.
C23_ScanReturnsNil ==
    prog = "repo" =>
        /\ (scanErr # "none") <=> (wpc = "returned")
        /\ (wpc = "returned" /\ opened) =>
             /\ scanErr = "nil"
             /\ wg = 0
             /\ \A h \in Hashes : workers[h] = NoWorker
        /\ scanErr = "err" =>
             ~opened /\ dispatched = {} /\ examined = 0 /\ iter = 0
        /\ walkErr => wpc \in {"wait", "returned"}

\* Scan returned nil after the callback returned an error to ForEach when a
\* worker had been dispatched
C23_Witness ==
    /\ prog = "repo" /\ wpc = "returned" /\ scanErr = "nil"
    /\ walkErr /\ dispatched # {}

\* C24: with MaxGoRoutines >= 1 auditRepo never comes to a stop before it has
\* returned, for every number of references and commits: some goroutine can
\* take a step until then; a worker holds no permit when it sends on
\* commitChan; commitWg counts the Add calls not yet answered by a Done, and
\* no worker is left when auditRepo has returned.
C24_AuditRepoTerminates ==
    (prog = "audit" /\ opts.MaxGoRoutines >= 1) =>
        /\ \A w \in aworkers : w.pc = "send" => ~w.holds
        /\ commitWg = produced - absorbed
        /\ apc = "done" \/ ENABLED NextAudit

\* C25: with Threads >= 1 and a fair scheduler RepoScanner.Scan returns in the
\* end unless patch generation failed and a worker panicked on the nil patch:
\* the permits held are those of the running workers, wg counts the running
\* workers and the one being dispatched, a worker that is sending leaves in
\* the end, and when Scan has returned no permit is held.
C25_ScanTerminates ==
    /\ [](prog = "repo" =>
            LET running == {h \in Hashes : workers[h] # NoWorker} IN
            /\ semaphore = Cardinality(running)
            /\ wg = Cardinality(running) + (IF wpc = "acquire" THEN 1 ELSE 0)
            /\ wpc = "returned" => semaphore = 0)
    /\ \A h \in Hashes :
         (prog = "repo" /\ workers[h].pc = "send") ~> (workers[h] = NoWorker \/ crashed)
    /\ (prog = "repo") ~> (wpc = "returned" \/ crashed)

\* Scan has returned after the deadline passed while every commit of the
\* history had a worker, one of which had sent a leak
C25_Witness ==
    /\ prog = "repo" /\ wpc = "returned" /\ ~crashed /\ timedOut
    /\ Cardinality(dispatched) = MaxCommits /\ produced > 0

====
